---- MODULE Spec2Model ----
(***************************************************************************)
(* Model of dmg_settings.py: the settings module a disk-image packaging    *)
(* tool executes, top to bottom, to obtain the names files, symlinks,      *)
(* icon_locations, window_rect, icon_size and volume_name.                 *)
(*                                                                         *)
(* The module is run statement by statement.  Its only input is the        *)
(* working directory of the process, which os.path.abspath('.') reads.     *)
(* A path is a record [abs, comps]: whether it starts with '/', and its    *)
(* components between the separators.  A str that os.path never touches    *)
(* (a label, a link target, the title) is a TLA+ string; a Python tuple is *)
(* a TLA+ tuple and a Python dict is a function on its keys.               *)
(***************************************************************************)
EXTENDS Integers, Sequences, FiniteSets, TLC

VARIABLES cwd, pc, globals

vars == <<cwd, pc, globals>>

\* Longest working directory, in components, the runs start from.
MaxDepth == 3

\* Directory names a working directory is made of.
DirNames == {"Users", "alphasvg", "dist"}

RECURSIVE SeqsUpTo(_)
SeqsUpTo(n) ==
    IF n = 0 THEN {<<>>}
    ELSE LET shorter == SeqsUpTo(n - 1)
         IN  shorter \cup {Append(s, d) : s \in {t \in shorter : Len(t) = n - 1}, d \in DirNames}

\* What os.getcwd() can return: an absolute path without '.', '..' or ''.
getcwd == {[abs |-> TRUE, comps |-> cs] : cs \in SeqsUpTo(MaxDepth)}

\* The path a str literal denotes, from its leading separator and components.
RelPath(cs) == [abs |-> FALSE, comps |-> cs]

isabs(path) == path.abs

\* os.path.join(a, p): p replaces a when p is absolute, else p is appended
\* to a behind one separator.
join(a, p) ==
    IF isabs(p) THEN p
    ELSE [abs |-> a.abs, comps |-> a.comps \o p.comps]

\* os.path.normpath: drops '' and '.', and lets '..' cancel the component
\* before it ('..' at the root of an absolute path is dropped, a leading
\* '..' of a relative path is kept).
RECURSIVE normcomps(_, _, _)
normcomps(isAbs, acc, cs) ==
    IF cs = <<>> THEN acc
    ELSE LET c == Head(cs)
             rest == Tail(cs)
         IN  IF c = "" \/ c = "." THEN normcomps(isAbs, acc, rest)
             ELSE IF c # ".." THEN normcomps(isAbs, Append(acc, c), rest)
             ELSE IF acc # <<>> /\ acc[Len(acc)] # ".."
                  THEN normcomps(isAbs, SubSeq(acc, 1, Len(acc) - 1), rest)
             ELSE IF isAbs THEN normcomps(isAbs, acc, rest)
             ELSE normcomps(isAbs, Append(acc, c), rest)

normpath(path) == [abs |-> path.abs, comps |-> normcomps(path.abs, <<>>, path.comps)]

\* A variant of abspath that forgets the working directory.
abspath_relative(dir, path) == normpath(path)

\* os.path.abspath(path) run in working directory dir.
abspath(dir, path) ==
    IF isabs(path) THEN normpath(path) ELSE normpath(join(dir, path))

\* A dict display {k1: v1, k2: v2, ...}: entries are stored left to right,
\* so of two entries with equal keys the later one stays.
DictLiteral(pairs) ==
    LET idx == 1..Len(pairs)
        last(k) == CHOOSE i \in idx : pairs[i][1] = k /\ \A j \in idx : pairs[j][1] = k => j <= i
    IN  [k \in {pairs[i][1] : i \in idx} |-> pairs[last(k)][2]]

\* Binding a name in the module's namespace.
Bind(name, value) ==
    [n \in DOMAIN globals \cup {name} |-> IF n = name THEN value ELSE globals[n]]

Defined(name) == name \in DOMAIN globals

base_dir == globals["base_dir"]
files == globals["files"]
symlinks == globals["symlinks"]
icon_locations == globals["icon_locations"]
window_rect == globals["window_rect"]
icon_size == globals["icon_size"]
volume_name == globals["volume_name"]

\* Both content entries given the same label.
FilesSameLabel(dir) ==
    DictLiteral(<< <<join(dir, RelPath(<<"dist", "gui_main.app">>)), "gui_main.app">>,
                   <<join(dir, RelPath(<<"dist", "gui_main", "_internal">>)), "gui_main.app">> >>)

FilesLiteral(dir) ==
    DictLiteral(<< <<join(dir, RelPath(<<"dist", "gui_main.app">>)), "gui_main.app">>,
                   <<join(dir, RelPath(<<"dist", "gui_main", "_internal">>)), "_internal">> >>)

\* The link named like the copied directory.
SymlinksClash == DictLiteral(<< <<"_internal", "/Applications">> >>)

SymlinksLiteral == DictLiteral(<< <<"Aplicaciones", "/Applications">> >>)

\* Variants of the placement table.
IconsMissingEntry ==
    DictLiteral(<< <<"gui_main.app", <<140, 120>> >>,
                   <<"Aplicaciones", <<460, 120>> >> >>)

IconsExtraEntry ==
    DictLiteral(<< <<"gui_main.app", <<140, 120>> >>,
                   <<"Aplicaciones", <<460, 120>> >>,
                   <<"Applications", <<460, 120>> >>,
                   <<"_internal", <<300, 400>> >> >>)

IconsSwappedAxes ==
    DictLiteral(<< <<"gui_main.app", <<140, 120>> >>,
                   <<"Aplicaciones", <<120, 460>> >>,
                   <<"_internal", <<300, 400>> >> >>)

IconsAppOutside ==
    DictLiteral(<< <<"gui_main.app", <<1400, 120>> >>,
                   <<"Aplicaciones", <<460, 120>> >>,
                   <<"_internal", <<300, 400>> >> >>)

IconsStacked ==
    DictLiteral(<< <<"gui_main.app", <<140, 120>> >>,
                   <<"Aplicaciones", <<140, 120>> >>,
                   <<"_internal", <<300, 400>> >> >>)

IconLocationsLiteral ==
    DictLiteral(<< <<"gui_main.app", <<140, 120>> >>,
                   <<"Aplicaciones", <<460, 120>> >>,
                   <<"_internal", <<300, 400>> >> >>)

WindowRectLiteral == << <<200, 200>>, <<600, 350>> >>

\* An icon size with a digit too many.
IconSizeTooLarge == 10 * 100

IconSizeLiteral == 100

VolumeNameLiteral == "Instalador Transparente"

Init ==
    /\ cwd \in getcwd
    /\ pc = "import"
    /\ globals = <<>>

\* import os.path
ImportOsPath ==
    /\ pc = "import"
    /\ globals' = Bind("os", "module os")
    /\ pc' = "base_dir"
    /\ UNCHANGED cwd

\* base_dir = os.path.abspath('.')
AssignBaseDir ==
    /\ pc = "base_dir"
    /\ globals' = Bind("base_dir", abspath(cwd, RelPath(<<".">>)))
    /\ pc' = "files"
    /\ UNCHANGED cwd

\* files = {...}
AssignFiles ==
    /\ pc = "files"
    /\ globals' = Bind("files", FilesLiteral(base_dir))
    /\ pc' = "symlinks"
    /\ UNCHANGED cwd

\* symlinks = {...}
AssignSymlinks ==
    /\ pc = "symlinks"
    /\ globals' = Bind("symlinks", SymlinksLiteral)
    /\ pc' = "icon_locations"
    /\ UNCHANGED cwd

\* icon_locations = {...}
AssignIconLocations ==
    /\ pc = "icon_locations"
    /\ globals' = Bind("icon_locations", IconLocationsLiteral)
    /\ pc' = "window_rect"
    /\ UNCHANGED cwd

\* window_rect = ((200, 200), (600, 350))
AssignWindowRect ==
    /\ pc = "window_rect"
    /\ globals' = Bind("window_rect", WindowRectLiteral)
    /\ pc' = "icon_size"
    /\ UNCHANGED cwd

\* icon_size = 100
AssignIconSize ==
    /\ pc = "icon_size"
    /\ globals' = Bind("icon_size", IconSizeLiteral)
    /\ pc' = "volume_name"
    /\ UNCHANGED cwd

\* volume_name = 'Instalador Transparente'
AssignVolumeName ==
    /\ pc = "volume_name"
    /\ globals' = Bind("volume_name", VolumeNameLiteral)
    /\ pc' = "done"
    /\ UNCHANGED cwd

Next ==
    \/ ImportOsPath
    \/ AssignBaseDir
    \/ AssignFiles
    \/ AssignSymlinks
    \/ AssignIconLocations
    \/ AssignWindowRect
    \/ AssignIconSize
    \/ AssignVolumeName

Spec == Init /\ [][Next]_vars

----
\* Label sets and geometry read off the namespace.

ContentLabels == {files[p] : p \in DOMAIN files}
SymlinkLabels == DOMAIN symlinks
IconLabels == DOMAIN icon_locations
Width == window_rect[2][1]
Height == window_rect[2][2]
OriginX == window_rect[1][1]
OriginY == window_rect[1][2]

Abs(n) == IF n < 0 THEN -n ELSE n

IsCoordinatePair(v) == DOMAIN v = 1..2 /\ v[1] \in Int /\ v[2] \in Int

----
\* C1: every content label (a value of files) and every symlink label (a key
\* of symlinks) is a key of icon_locations.
C1_IconsCoverLabels ==
    Defined("icon_locations") =>
        (ContentLabels \cup SymlinkLabels) \subseteq IconLabels

C1_Witness ==
    /\ pc = "done"
    /\ ContentLabels = {"gui_main.app", "_internal"}
    /\ SymlinkLabels = {"Aplicaciones"}
    /\ Cardinality(IconLabels) = 3

\* C2 as stated: every icon coordinate is an integer pair with
\* 0 <= x <= width and 0 <= y <= height, (width, height) = window_rect[1].
C2_AllIconsInsideWindow ==
    Defined("window_rect") =>
        \A l \in IconLabels :
            /\ IsCoordinatePair(icon_locations[l])
            /\ 0 <= icon_locations[l][1] /\ icon_locations[l][1] <= Width
            /\ 0 <= icon_locations[l][2] /\ icon_locations[l][2] <= Height

\* C2 amended: every icon coordinate is an integer pair with 0 <= x <= width
\* and 0 <= y; y <= height holds for every label except '_internal', whose y
\* lies below the window's height.
C2_IconsInsideExceptInternal ==
    Defined("window_rect") =>
        /\ \A l \in IconLabels :
            /\ IsCoordinatePair(icon_locations[l])
            /\ 0 <= icon_locations[l][1] /\ icon_locations[l][1] <= Width
            /\ 0 <= icon_locations[l][2]
            /\ l # "_internal" => icon_locations[l][2] <= Height
        /\ "_internal" \in IconLabels
        /\ icon_locations["_internal"][2] > Height

C2_Witness ==
    /\ pc = "done"
    /\ icon_locations["_internal"] = <<300, 400>>
    /\ Height = 350
    /\ \E l \in IconLabels : l # "_internal" /\ icon_locations[l][2] <= Height

\* C3: the window's width and height are positive integers and icon_size is
\* a positive integer no larger than the smaller of the two.
C3_WindowAndIconSize ==
    Defined("icon_size") =>
        /\ Width \in Int /\ Width > 0
        /\ Height \in Int /\ Height > 0
        /\ icon_size \in Int /\ icon_size > 0
        /\ icon_size <= Width /\ icon_size <= Height

C3_Witness ==
    /\ pc = "done"
    /\ Width = 600 /\ Height = 350
    /\ icon_size = 100

\* C4 as stated: the coordinate of 'gui_main.app' lies in the rectangle with
\* origin window_rect[0] and size window_rect[1]:
\* ox <= x <= ox + w and oy <= y <= oy + h.
C4_AppIconInScreenRect ==
    Defined("window_rect") =>
        /\ OriginX <= icon_locations["gui_main.app"][1]
        /\ icon_locations["gui_main.app"][1] <= OriginX + Width
        /\ OriginY <= icon_locations["gui_main.app"][2]
        /\ icon_locations["gui_main.app"][2] <= OriginY + Height

\* C4 amended: the coordinate (140,120) of 'gui_main.app' lies within the
\* window's size measured from the window's own corner:
\* 0 <= 140 <= w and 0 <= 120 <= h.
C4_AppIconInWindowArea ==
    Defined("window_rect") =>
        /\ icon_locations["gui_main.app"] = <<140, 120>>
        /\ 0 <= icon_locations["gui_main.app"][1]
        /\ icon_locations["gui_main.app"][1] <= Width
        /\ 0 <= icon_locations["gui_main.app"][2]
        /\ icon_locations["gui_main.app"][2] <= Height

C4_Witness ==
    /\ pc = "done"
    /\ icon_locations["gui_main.app"] = <<140, 120>>
    /\ window_rect = << <<200, 200>>, <<600, 350>> >>
    /\ icon_locations["gui_main.app"][1] < OriginX

\* C5: no two distinct source paths of files carry the same label.
C5_ContentLabelsUnique ==
    Defined("files") =>
        \A p, q \in DOMAIN files : files[p] = files[q] => p = q

C5_Witness ==
    /\ pc = "done"
    /\ Cardinality(DOMAIN files) = 2
    /\ Cardinality(ContentLabels) = 2

\* C6: every key of icon_locations is a content label or a symlink label.
C6_IconsOnlyForLabels ==
    Defined("icon_locations") =>
        IconLabels \subseteq (ContentLabels \cup SymlinkLabels)

C6_Witness ==
    /\ pc = "done"
    /\ IconLabels = {"gui_main.app", "Aplicaciones", "_internal"}
    /\ "Aplicaciones" \in SymlinkLabels
    /\ "_internal" \in ContentLabels

\* C7: once the module has run, all six names are bound with the shapes of
\* the schema: files maps absolute paths to labels, symlinks maps labels to
\* target paths, icon_locations maps labels to coordinate pairs, window_rect
\* is a pair of coordinate pairs, icon_size an integer, volume_name a string.
C7_SchemaDefined ==
    pc = "done" =>
        /\ {"files", "symlinks", "icon_locations", "window_rect",
            "icon_size", "volume_name"} \subseteq DOMAIN globals
        /\ \A p \in DOMAIN files :
            /\ isabs(p)
            /\ p.comps \in Seq(STRING)
            /\ files[p] \in STRING
        /\ \A l \in DOMAIN symlinks : l \in STRING /\ symlinks[l] \in STRING
        /\ \A l \in DOMAIN icon_locations :
            l \in STRING /\ IsCoordinatePair(icon_locations[l])
        /\ DOMAIN window_rect = 1..2
        /\ IsCoordinatePair(window_rect[1])
        /\ IsCoordinatePair(window_rect[2])
        /\ icon_size \in Int
        /\ volume_name \in STRING

C7_Witness ==
    /\ pc = "done"
    /\ cwd.comps # <<>>
    /\ \E p \in DOMAIN files : p.comps = cwd.comps \o <<"dist", "gui_main.app">>
    /\ volume_name = "Instalador Transparente"

\* C9: no key of symlinks is a value of files.
C9_LabelsDisjoint ==
    Defined("symlinks") =>
        SymlinkLabels \cap ContentLabels = {}

C9_Witness ==
    /\ pc = "done"
    /\ SymlinkLabels # {}
    /\ ContentLabels # {}
    /\ \A l \in IconLabels : ~(l \in SymlinkLabels /\ l \in ContentLabels)

\* C10: any two distinct labels of icon_locations are at least icon_size
\* apart in x or in y.
C10_IconsDoNotOverlap ==
    Defined("icon_size") =>
        \A l, m \in IconLabels :
            l # m =>
                \/ Abs(icon_locations[l][1] - icon_locations[m][1]) >= icon_size
                \/ Abs(icon_locations[l][2] - icon_locations[m][2]) >= icon_size

C10_Witness ==
    /\ pc = "done"
    /\ Cardinality(IconLabels) = 3
    /\ icon_locations["gui_main.app"][2] = icon_locations["Aplicaciones"][2]
    /\ icon_size = 100

====
